---- MODULE Spec2Model ----
(***************************************************************************)
(* Model of the segment scheduling and statistics engine of                *)
(* video-render-engine.                                                    *)
(*                                                                         *)
(* The repository holds two variants of the engine and of the page that    *)
(* drives it:                                                              *)
(*   "filter"   : src/unnamed/part_003 (lib) + src/src/pages/Index.tsx     *)
(*   "nofilter" : src/src/components/SegmentDownload.tsx:612-751 (lib)     *)
(*                + src/unnamed/part_000 (page)                            *)
(*                                                                         *)
(* Numbers.  Durations are real seconds in the source; here they are       *)
(* integers counting 1/Resolution of a second.  Times are integer          *)
(* milliseconds.  speedupFactor, which the source rounds to two decimals,  *)
(* is held in hundredths.  A JavaScript value that may be a number,        *)
(* undefined or -Infinity is a tagged record (Num, Undefined,              *)
(* NegInfinity).                                                           *)
(*                                                                         *)
(* Steps.  A step of the page is one turn of the event loop: a user event  *)
(* or a timer callback together with the promise continuations it          *)
(* resumes, up to the next await on a timer.  The setJob updaters queued   *)
(* in a turn are applied in order, and the buttons offered to the user are *)
(* those rendered from the job state left by the previous turn.  The job   *)
(* states the updaters of a turn produce one after the other are kept in   *)
(* passed, so that a property of every job state covers the states inside  *)
(* a turn as well as the one it leaves.                                    *)
(* Simulator intervals of different segments and runs fire in any order;   *)
(* the stagger timers of one processParallel call, set in one turn with    *)
(* increasing delays, fire in id order.                                    *)
(*                                                                         *)
(* handleFileSelect awaits getVideoDuration before it sets the job, and    *)
(* the upload zone that calls it stays rendered while the job is null, so  *)
(* several calls can be in flight; each one sets a new job when its        *)
(* metadata arrives, also when a job is already present and running.       *)
(***************************************************************************)
EXTENDS Integers, Sequences, FiniteSets, TLC

VARIABLES
    variant,    \* which of the two page/lib pairs is running
    job,        \* the page's job state (useState<VideoJob | null>)
    mode,       \* the page's mode state (useState<ProcessingMode>)
    loads,      \* handleFileSelect calls awaiting getVideoDuration
    runs,       \* startProcessing calls in flight, by run number
    nextJobId,  \* stands for generateJobId(): the next fresh job id
    selects,    \* number of handleFileSelect calls made so far
    selected,   \* number of segments of the files selected so far
    starts,     \* number of startProcessing calls made so far
    started,    \* ids of the jobs startProcessing was called on
    emitted,    \* the onSegmentUpdate calls of the last step, in order
    passed,     \* the job states the setJob updaters of the last step produced, in order
    probe       \* the pure-function call under test: its inputs and its result

pageVars ==
    <<variant, job, mode, loads, runs, nextJobId, selects, selected, starts, started, emitted,
      passed>>
vars == <<pageVars, probe>>

----------------------------------------------------------------------------
(* Bounds of the model *)

\* ticks per second of a modelled duration
Resolution == 2
\* longest duration handed to createVideoSegments on its own, seconds
MaxDurationSecs == 35
\* longest sequence of per-segment times handed to calculateStats on its own
MaxTimes == 3
\* handleFileSelect calls in one behaviour
MaxSelects == 2
\* startProcessing calls in one behaviour
MaxStarts == 2
\* segments of all the files selected in one behaviour
MaxSegments == 2
\* longest selected file, in steps of 3/4 of a segment
MaxFileSteps == 2
\* segments of all the files selected in one behaviour of sequential runs
MaxSequentialSegments == 3

----------------------------------------------------------------------------
(* Program constants *)

SEGMENT_DURATION == 10
MERGE_OVERHEAD_FILTER == 500
MERGE_OVERHEAD_NOFILTER == 300

\* SEGMENT_DURATION in ticks
SegmentLength == SEGMENT_DURATION * Resolution

Variants == {"filter", "nofilter"}
Modes == {"sequential", "parallel"}

----------------------------------------------------------------------------
(* JavaScript values *)

Num(v) == [kind |-> "number", val |-> v]
Undefined == [kind |-> "undefined"]
NegInfinity == [kind |-> "-Infinity"]
Infinity == [kind |-> "Infinity"]
Str(s) == [kind |-> "string", val |-> s]
IsNum(x) == x.kind = "number"

Min(a, b) == IF a <= b THEN a ELSE b
Max(a, b) == IF a >= b THEN a ELSE b

\* Math.ceil(a / b) for b > 0
MathCeilDiv(a, b) == -((-a) \div b)

\* a length taken by magnitude instead of being clamped
ToLengthMagnitude(n) == IF n < 0 THEN -n ELSE n

\* the length Array.from({ length: n }) uses: ToLength clamps below at 0
ToLength(n) == IF n < 0 THEN 0 ELSE n

RECURSIVE Sum(_)
\* segmentTimes.reduce((a, b) => a + b, 0)
Sum(s) == IF s = <<>> THEN 0 ELSE Head(s) + Sum(Tail(s))

RECURSIVE MaxOf(_)
MaxOf(s) == IF Len(s) = 1 THEN Head(s) ELSE Max(Head(s), MaxOf(Tail(s)))

\* Math.max(...segmentTimes): -Infinity when there is no argument
MathMax(s) == IF s = <<>> THEN NegInfinity ELSE Num(MaxOf(s))

\* x + n for a finite n
JSAdd(x, n) == IF IsNum(x) THEN Num(x.val + n) ELSE x

\* Math.round((n / d) * 100) / 100 in hundredths, for a finite n >= 0 and d
\* either a positive number or -Infinity (n / -Infinity is -0, which rounds
\* to -0 and compares equal to 0).  Math.round rounds halves up.
RoundedRatio(n, d) ==
    IF IsNum(d) THEN Num((200 * n + d.val) \div (2 * d.val)) ELSE Num(0)

----------------------------------------------------------------------------
(* Segment partitioner *)

\* createVideoSegments with the segment count rounded down
createVideoSegmentsFloor(duration) ==
    LET segmentCount == duration \div (SEGMENT_DURATION * Resolution)
    IN  [i \in 1..ToLength(segmentCount) |->
            [id |-> i - 1,
             status |-> "pending",
             progress |-> 0,
             startTime |-> (i - 1) * SEGMENT_DURATION * Resolution,
             endTime |-> Min(i * SEGMENT_DURATION * Resolution, duration),
             processingTime |-> Undefined]]

\* createVideoSegments with one segment more than the whole segments that fit
createVideoSegmentsOneMore(duration) ==
    LET segmentCount == (duration \div (SEGMENT_DURATION * Resolution)) + 1
    IN  [i \in 1..ToLength(segmentCount) |->
            [id |-> i - 1,
             status |-> "pending",
             progress |-> 0,
             startTime |-> (i - 1) * SEGMENT_DURATION * Resolution,
             endTime |-> Min(i * SEGMENT_DURATION * Resolution, duration),
             processingTime |-> Undefined]]

createVideoSegments(duration) ==
    LET segmentCount == MathCeilDiv(duration, SEGMENT_DURATION * Resolution)
    IN  [i \in 1..ToLength(segmentCount) |->
            [id |-> i - 1,
             status |-> "pending",
             progress |-> 0,
             startTime |-> (i - 1) * SEGMENT_DURATION * Resolution,
             endTime |-> Min(i * SEGMENT_DURATION * Resolution, duration),
             processingTime |-> Undefined]]

----------------------------------------------------------------------------
(* Statistics aggregator *)

MergeOverhead(which) ==
    IF which = "filter" THEN MERGE_OVERHEAD_FILTER ELSE MERGE_OVERHEAD_NOFILTER

\* part_003: calculateStats(segmentTimes, mode, sequentialTime?)
calculateStatsFilter(segmentTimes, processingMode, sequentialTime) ==
    LET totalTime ==
            IF processingMode = "sequential"
            THEN Num(Sum(segmentTimes))
            ELSE JSAdd(MathMax(segmentTimes), MERGE_OVERHEAD_FILTER)
        \* sequentialTime || sum : undefined and 0 are falsy
        estimatedSequential ==
            IF IsNum(sequentialTime) /\ sequentialTime.val # 0
            THEN sequentialTime.val
            ELSE Sum(segmentTimes)
        speedupFactor ==
            IF processingMode = "parallel"
            THEN RoundedRatio(estimatedSequential, totalTime)
            ELSE Num(100)
    IN  [totalTime |-> totalTime,
         perSegmentTimes |-> segmentTimes,
         speedupFactor |-> speedupFactor,
         sequentialTime |->
            IF processingMode = "sequential" THEN totalTime ELSE Num(estimatedSequential),
         parallelTime |-> IF processingMode = "parallel" THEN totalTime ELSE Undefined,
         segmentCount |-> Undefined]

\* SegmentDownload.tsx: calculateStats(segmentTimes, processingMode)
calculateStatsNoFilter(segmentTimes, processingMode) ==
    LET sequentialTime == Sum(segmentTimes)
        parallelTime == JSAdd(MathMax(segmentTimes), MERGE_OVERHEAD_NOFILTER)
        totalTime == IF processingMode = "sequential" THEN Num(sequentialTime) ELSE parallelTime
        speedupFactor == RoundedRatio(sequentialTime, parallelTime)
    IN  [totalTime |-> totalTime,
         perSegmentTimes |-> segmentTimes,
         speedupFactor |-> speedupFactor,
         sequentialTime |-> Num(sequentialTime),
         parallelTime |-> parallelTime,
         segmentCount |-> Num(Len(segmentTimes))]

\* the input array after a call that takes its first element off
segmentTimesAfterShift(segmentTimes) ==
    IF segmentTimes = <<>> THEN segmentTimes ELSE Tail(segmentTimes)

\* the input array after a call of calculateStats: reduce and the spread
\* into Math.max read it, and nothing writes to it or to module state
segmentTimesAfterCall(segmentTimes) == segmentTimes

\* calculateStats with the two modes taken for one another
calculateStatsSwapped(which, segmentTimes, processingMode, sequentialTime) ==
    IF which = "filter"
    THEN calculateStatsFilter(segmentTimes,
            IF processingMode = "sequential" THEN "parallel" ELSE "sequential", sequentialTime)
    ELSE calculateStatsNoFilter(segmentTimes,
            IF processingMode = "sequential" THEN "parallel" ELSE "sequential")

\* the calculateStats of a variant; the third argument exists in part_003 only
calculateStats(which, segmentTimes, processingMode, sequentialTime) ==
    IF which = "filter"
    THEN calculateStatsFilter(segmentTimes, processingMode, sequentialTime)
    ELSE calculateStatsNoFilter(segmentTimes, processingMode)

----------------------------------------------------------------------------
(* Job state container: the setJob updaters of the page *)

NoJob == [kind |-> "null"]

\* job?.status is one of converting, splitting, processing, merging
isProcessing(j) ==
    j # NoJob /\ j.status \in {"processing", "converting", "splitting", "merging"}

\* updateSegment replacing by array position instead of by id
updateSegmentByPosition(prev, updatedSegment) ==
    IF prev = NoJob THEN prev
    ELSE [prev EXCEPT !.segments =
            [i \in DOMAIN prev.segments |->
                IF i = 1 THEN updatedSegment ELSE prev.segments[i]]]

\* setJob(prev => !prev ? prev : {...prev, segments: prev.segments.map(
\*     s => s.id === updatedSegment.id ? updatedSegment : s)})
updateSegment(prev, updatedSegment) ==
    IF prev = NoJob THEN prev
    ELSE [prev EXCEPT !.segments =
            [i \in DOMAIN prev.segments |->
                IF prev.segments[i].id = updatedSegment.id
                THEN updatedSegment
                ELSE prev.segments[i]]]

RECURSIVE ApplyUpdates(_, _)
\* the updaters queued by successive onSegmentUpdate calls, applied in order
ApplyUpdates(prev, updates) ==
    IF updates = <<>> THEN prev
    ELSE ApplyUpdates(updateSegment(prev, Head(updates)), Tail(updates))

\* the status updater without its test of prev
setStatusUnguarded(prev, status) ==
    IF prev = NoJob THEN [status |-> status] ELSE [prev EXCEPT !.status = status]

\* setJob(prev => prev ? { ...prev, status } : prev)
setStatus(prev, status) ==
    IF prev = NoJob THEN prev ELSE [prev EXCEPT !.status = status]

\* the "Reset segments" updater of startProcessing
resetSegments(prev) ==
    IF prev = NoJob THEN prev
    ELSE [prev EXCEPT !.segments =
            [i \in DOMAIN prev.segments |->
                [prev.segments[i] EXCEPT !.status = "pending",
                                         !.progress = 0,
                                         !.processingTime = Undefined]]]

\* setJob(prev => prev ? { ...prev, status: 'completed', processedUrl, stats } : prev)
setCompleted(prev, stats) ==
    IF prev = NoJob THEN prev
    ELSE [prev EXCEPT !.status = "completed", !.stats = stats]

\* a catch block that swallows the rejection
handleRejectionSwallowed(prev) == prev

\* the updater of the catch block of startProcessing
handleRejection(prev) ==
    IF prev = NoJob THEN prev
    ELSE [prev EXCEPT !.status = "error", !.error = Str("Processing failed")]

----------------------------------------------------------------------------
(* Scheduling policies and simulator *)

\* const steps = 20
steps == 20

\* what Date.now() - startTime can be when the simulator resolves, ms
ElapsedTimes == {600, 900}

\* the durations getVideoDuration resolves with: multiples of 3/4 of a segment
FileDurations == {k * ((3 * SegmentLength) \div 4) : k \in 0..MaxFileSteps}

\* the files the user can select, by the video.duration their metadata
\* gives: a finite number, or Infinity for a recording without a duration
Files == {[duration |-> Num(d)] : d \in FileDurations} \cup {[duration |-> Infinity]}

\* Array.from({ length: segmentCount }) throws a RangeError when the length,
\* Math.ceil(Infinity / SEGMENT_DURATION) clamped by ToLength to 2^53 - 1, is
\* not a valid array length
createVideoSegmentsThrows(duration) == duration = Infinity

\* the segments handleFileSelect gets for a file
SegmentsOfFile(file) ==
    IF createVideoSegmentsThrows(file.duration) THEN <<>>
    ELSE createVideoSegments(file.duration.val)

\* the simulator reporting the share of the step before the one just counted
ProgressOfPreviousStep(currentStep) == ((currentStep - 1) * 100) \div steps

\* simulateSegmentProcessing: (currentStep / steps) * 100, the progress the
\* interval callback passes to onProgress; steps divides 100, so the value is
\* held exactly
Progress(currentStep) == (currentStep * 100) \div steps

\* { ...segment, status: 'processing', progress }
ProcessingUpdate(segment, progress) ==
    [segment EXCEPT !.status = "processing", !.progress = progress]

\* the completed update without the time the simulator resolved with
CompletedUpdateWithoutTime(segment, time) ==
    [segment EXCEPT !.status = "completed", !.progress = 100]

\* the completed update keeping the progress of the segment it was built from
CompletedUpdateKeepingProgress(segment, time) ==
    [segment EXCEPT !.status = "completed", !.processingTime = Num(time)]

\* { ...segment, status: 'completed', progress: 100, processingTime: time }
CompletedUpdate(segment, time) ==
    [segment EXCEPT !.status = "completed", !.progress = 100,
                    !.processingTime = Num(time)]

\* processSequentially starting every simulator without awaiting the one before
FirstLaunchedAll(n) == 1..n

\* processSequentially: the segments whose simulator is started before the
\* first await of the loop
FirstLaunched(n) == IF n >= 1 THEN {1} ELSE {}

\* results collected in the order the promises resolve
PromiseAllByArrival(values, index, value) ==
    LET free == {k \in DOMAIN values : values[k] = Undefined}
        slot == CHOOSE k \in free : \A l \in free : k <= l
    IN  [values EXCEPT ![slot] = Num(value)]

\* Promise.all: the value of the promise at position index is stored at index
PromiseAllSettle(values, index, value) ==
    [values EXCEPT ![index] = Num(value)]

\* the stagger unit of processParallel in ms
STAGGER_UNIT_FILTER == 50
STAGGER_UNIT_NOFILTER == 30

\* setTimeout(r, segment.id * unit): the delay of the stagger timer
StaggerDelay(which, segment) ==
    segment.id * (IF which = "filter" THEN STAGGER_UNIT_FILTER
                  ELSE STAGGER_UNIT_NOFILTER)

\* stagger timers firing in any order
StaggerAnyOrder(which, segments, task, i) == TRUE

\* processParallel: the stagger timer of task i has come due; the timers of
\* one call are set in one turn and fire in order of their delay
StaggerDue(which, segments, task, i) ==
    \A k \in DOMAIN task :
        StaggerDelay(which, segments[k]) < StaggerDelay(which, segments[i])
            => task[k].st # "waiting"

NewRun(j, selectedMode) ==
    [jobId |-> j.id,
     mode |-> selectedMode,
     segments |-> j.segments,
     pc |-> "converting",
     task |-> [i \in DOMAIN j.segments |->
                  [st |-> "waiting", step |-> 0, time |-> Undefined]],
     times |-> <<>>,
     values |-> [i \in DOMAIN j.segments |-> Undefined],
     finished |-> <<>>,
     segmentTimes |-> <<>>]

Without(f, x) == [y \in (DOMAIN f) \ {x} |-> f[y]]

Emit(r, updates) == [i \in DOMAIN updates |-> [run |-> r, segment |-> updates[i]]]

\* the job states the updaters of updateSegment produce when the updates are
\* applied to prev one after the other
JobStates(prev, updates) ==
    [k \in DOMAIN updates |-> ApplyUpdates(prev, SubSeq(updates, 1, k))]

----------------------------------------------------------------------------
(* The page: handlers and timers *)

PageIdle ==
    /\ job = NoJob
    /\ mode = "parallel"
    /\ loads = {}
    /\ runs = <<>>
    /\ nextJobId = 1
    /\ selects = 0
    /\ selected = 0
    /\ starts = 0
    /\ started = {}
    /\ emitted = <<>>
    /\ passed = <<>>

Init ==
    /\ variant \in Variants
    /\ PageIdle
    /\ probe = [op |-> "none"]

\* handleFileSelect up to its await; VideoUploadZone is rendered while !job
FileSelectWithin(file, budget) ==
    /\ job = NoJob
    /\ selects < MaxSelects
    /\ selected + Len(SegmentsOfFile(file)) <= budget
    /\ selects' = selects + 1
    /\ selected' = selected + Len(SegmentsOfFile(file))
    /\ loads' = loads \cup {[n |-> selects + 1, file |-> file, mode |-> mode,
                              beforeReset |-> FALSE]}
    /\ emitted' = <<>>
    /\ passed' = <<>>
    /\ UNCHANGED <<variant, job, mode, runs, nextJobId, starts, started, probe>>

FileSelect(file) == FileSelectWithin(file, MaxSegments)

\* getVideoDuration resolved: the rest of handleFileSelect; an exception of
\* createVideoSegments is caught and logged, and no job is set
LoadResolve(l) ==
    /\ l \in loads
    /\ loads' = loads \ {l}
    /\ IF createVideoSegmentsThrows(l.file.duration)
       THEN /\ UNCHANGED <<job, nextJobId>>
            /\ passed' = <<>>
       ELSE /\ job' = [id |-> nextJobId,
                       originalFile |-> l.file,
                       mode |-> l.mode,
                       segments |-> createVideoSegments(l.file.duration.val),
                       stats |-> Undefined,
                       error |-> Undefined,
                       status |-> "idle"]
            /\ nextJobId' = nextJobId + 1
            /\ passed' = <<job'>>
    /\ emitted' = <<>>
    /\ UNCHANGED <<variant, mode, runs, selects, selected, starts, started, probe>>

\* getVideoDuration rejected (video.onerror): caught and logged
LoadReject(l) ==
    /\ l \in loads
    /\ loads' = loads \ {l}
    /\ emitted' = <<>>
    /\ passed' = <<>>
    /\ UNCHANGED <<variant, job, mode, runs, nextJobId, selects, selected, starts, started, probe>>

\* ProcessingControls onModeChange (Index.tsx only)
SetMode(m) ==
    /\ variant = "filter"
    /\ job # NoJob
    /\ ~(isProcessing(job) \/ job.status = "completed")
    /\ m # mode
    /\ mode' = m
    /\ emitted' = <<>>
    /\ passed' = <<>>
    /\ UNCHANGED <<variant, job, loads, runs, nextJobId, selects, selected, starts, started, probe>>

\* startProcessing up to its first await; the buttons that call it are
\* rendered while job.status is idle or completed
StartProcessing(selectedMode) ==
    /\ job # NoJob
    /\ job.status \in {"idle", "completed"}
    /\ starts < MaxStarts
    /\ variant = "filter" => selectedMode = mode
    /\ mode' = selectedMode
    /\ job' = [job EXCEPT !.status = "converting", !.mode = selectedMode]
    /\ runs' = (starts + 1) :> NewRun(job, selectedMode) @@ runs
    /\ starts' = starts + 1
    /\ started' = started \cup {job.id}
    /\ emitted' = <<>>
    /\ passed' = <<job'>>
    /\ UNCHANGED <<variant, loads, nextJobId, selects, selected, probe>>

\* the conversion delay elapsed
ConvertDone(r) ==
    /\ r \in DOMAIN runs
    /\ runs[r].pc = "converting"
    /\ job' = setStatus(job, "splitting")
    /\ runs' = [runs EXCEPT ![r].pc = "splitting"]
    /\ emitted' = <<>>
    /\ passed' = <<job'>>
    /\ UNCHANGED <<variant, mode, loads, nextJobId, selects, selected, starts, started, probe>>

\* the splitting delay elapsed: status processing, segments reset, and the
\* policy runs up to its first await (through to merging when there is no
\* segment to await)
SplitDone(r) ==
    /\ r \in DOMAIN runs
    /\ runs[r].pc = "splitting"
    /\ LET run == runs[r]
           n == Len(run.segments)
           launched == IF run.mode = "sequential" THEN FirstLaunched(n) ELSE {}
           updates == IF launched = {} THEN <<>>
                      ELSE [i \in 1..Cardinality(launched) |->
                               ProcessingUpdate(run.segments[i], 0)]
           task == [i \in 1..n |->
                       IF i \in launched
                       THEN [run.task[i] EXCEPT !.st = "running"]
                       ELSE run.task[i]]
           returns == n = 0
           afterStatus == setStatus(job, "processing")
           afterReset == resetSegments(afterStatus)
           afterUpdates == ApplyUpdates(afterReset, updates)
       IN  /\ job' = IF returns THEN setStatus(afterUpdates, "merging") ELSE afterUpdates
           /\ runs' = [runs EXCEPT ![r] =
                         [run EXCEPT !.pc = IF returns THEN "merging" ELSE "policy",
                                     !.task = task]]
           /\ emitted' = Emit(r, updates)
           /\ passed' = <<afterStatus, afterReset>> \o JobStates(afterReset, updates)
                        \o (IF returns THEN <<job'>> ELSE <<>>)
    /\ UNCHANGED <<variant, mode, loads, nextJobId, selects, selected, starts, started, probe>>

\* processParallel: the stagger timer of task i fired
StaggerFire(r, i) ==
    /\ r \in DOMAIN runs
    /\ runs[r].pc \in {"policy", "rejected"}
    /\ runs[r].mode = "parallel"
    /\ i \in DOMAIN runs[r].task
    /\ runs[r].task[i].st = "waiting"
    /\ StaggerDue(variant, runs[r].segments, runs[r].task, i)
    /\ LET update == ProcessingUpdate(runs[r].segments[i], 0)
       IN  /\ job' = updateSegment(job, update)
           /\ emitted' = Emit(r, <<update>>)
           /\ passed' = <<job'>>
    /\ runs' = [runs EXCEPT ![r].task[i].st = "running"]
    /\ UNCHANGED <<variant, mode, loads, nextJobId, selects, selected, starts, started, probe>>

\* simulateSegmentProcessing: an interval tick of task i before the last one
Tick(r, i) ==
    /\ r \in DOMAIN runs
    /\ runs[r].pc \in {"policy", "rejected"}
    /\ i \in DOMAIN runs[r].task
    /\ runs[r].task[i].st = "running"
    /\ runs[r].task[i].step + 1 < steps
    /\ LET currentStep == runs[r].task[i].step + 1
           update == ProcessingUpdate(runs[r].segments[i], Progress(currentStep))
       IN  /\ job' = updateSegment(job, update)
           /\ emitted' = Emit(r, <<update>>)
           /\ passed' = <<job'>>
           /\ runs' = [runs EXCEPT ![r].task[i].step = currentStep]
    /\ UNCHANGED <<variant, mode, loads, nextJobId, selects, selected, starts, started, probe>>

\* simulateSegmentProcessing: the last interval tick of task i resolves with
\* time; the policy continues from its await in the same turn, up to its
\* next await or, when it returns, up to the merging delay of startProcessing.
\* The tasks of a processParallel call whose Promise.all was rejected keep
\* running; nothing awaits their results
LastTick(r, i, time) ==
    /\ r \in DOMAIN runs
    /\ runs[r].pc \in {"policy", "rejected"}
    /\ i \in DOMAIN runs[r].task
    /\ runs[r].task[i].st = "running"
    /\ runs[r].task[i].step + 1 >= steps
    /\ LET run == runs[r]
           n == Len(run.segments)
           currentStep == run.task[i].step + 1
           sequential == run.mode = "sequential"
           resolved == [run.task EXCEPT ![i] =
                           [st |-> "done", step |-> currentStep, time |-> Num(time)]]
           launchNext == sequential /\ i < n /\ resolved[i + 1].st = "waiting"
           task == IF launchNext
                   THEN [resolved EXCEPT ![i + 1].st = "running"]
                   ELSE resolved
           times == IF sequential THEN Append(run.times, time) ELSE run.times
           values == IF sequential THEN run.values
                     ELSE PromiseAllSettle(run.values, i, time)
           returns == /\ run.pc = "policy"
                      /\ IF sequential THEN i = n
                         ELSE \A k \in 1..n : task[k].st = "done"
           updates ==
               <<ProcessingUpdate(run.segments[i], Progress(currentStep)),
                 CompletedUpdate(run.segments[i], time)>>
               \o (IF launchNext
                   THEN <<ProcessingUpdate(run.segments[i + 1], 0)>>
                   ELSE <<>>)
           afterUpdates == ApplyUpdates(job, updates)
       IN  /\ job' = IF returns THEN setStatus(afterUpdates, "merging") ELSE afterUpdates
           /\ emitted' = Emit(r, updates)
           /\ passed' = JobStates(job, updates)
                        \o (IF returns THEN <<job'>> ELSE <<>>)
           /\ runs' = [runs EXCEPT ![r] =
                         [run EXCEPT
                             !.task = task,
                             !.times = times,
                             !.values = values,
                             !.finished = Append(run.finished, i),
                             !.pc = IF returns THEN "merging" ELSE run.pc,
                             !.segmentTimes =
                                 IF ~returns THEN <<>>
                                 ELSE IF sequential THEN times
                                 ELSE [k \in 1..n |-> values[k].val]]]
    /\ UNCHANGED <<variant, mode, loads, nextJobId, selects, selected, starts, started, probe>>

\* the merging delay elapsed: stats computed and attached
MergeDone(r) ==
    /\ r \in DOMAIN runs
    /\ runs[r].pc = "merging"
    /\ LET stats == calculateStats(variant, runs[r].segmentTimes, runs[r].mode, Undefined)
       IN  job' = setCompleted(job, stats)
    /\ runs' = Without(runs, r)
    /\ emitted' = <<>>
    /\ passed' = <<job'>>
    /\ UNCHANGED <<variant, mode, loads, nextJobId, selects, selected, starts, started, probe>>

\* handleReset: New Video is disabled while isProcessing (Index.tsx) or
\* rendered only while job.status is completed (part_000).  It cancels
\* nothing; the handleFileSelect calls still awaiting their metadata are
\* marked as started before the reset
handleReset ==
    /\ job # NoJob
    /\ IF variant = "filter" THEN ~isProcessing(job) ELSE job.status = "completed"
    /\ job' = NoJob
    /\ loads' = {[l EXCEPT !.beforeReset = TRUE] : l \in loads}
    /\ emitted' = <<>>
    /\ passed' = <<job'>>
    /\ UNCHANGED <<variant, mode, runs, nextJobId, selects, selected, starts, started, probe>>

Next ==
    \/ \E file \in Files : FileSelect(file)
    \/ \E l \in loads : LoadResolve(l)
    \/ \E l \in loads : LoadReject(l)
    \/ \E m \in Modes : SetMode(m)
    \/ \E m \in Modes : StartProcessing(m)
    \/ \E r \in DOMAIN runs : ConvertDone(r)
    \/ \E r \in DOMAIN runs : SplitDone(r)
    \/ \E r \in DOMAIN runs : \E i \in DOMAIN runs[r].task : StaggerFire(r, i)
    \/ \E r \in DOMAIN runs : \E i \in DOMAIN runs[r].task : Tick(r, i)
    \/ \E r \in DOMAIN runs : \E i \in DOMAIN runs[r].task :
          \E time \in ElapsedTimes : LastTick(r, i, time)
    \/ \E r \in DOMAIN runs : MergeDone(r)
    \/ handleReset

Spec == Init /\ [][Next]_vars

----------------------------------------------------------------------------
(* The page when every run is started in sequential mode; the runs being   *)
(* cheaper, the files selected can have more segments.                     *)

NextSequential ==
    \/ \E file \in Files : FileSelectWithin(file, MaxSequentialSegments)
    \/ \E l \in loads : LoadResolve(l)
    \/ \E l \in loads : LoadReject(l)
    \/ \E m \in Modes : SetMode(m)
    \/ StartProcessing("sequential")
    \/ \E r \in DOMAIN runs : ConvertDone(r)
    \/ \E r \in DOMAIN runs : SplitDone(r)
    \/ \E r \in DOMAIN runs : \E i \in DOMAIN runs[r].task : Tick(r, i)
    \/ \E r \in DOMAIN runs : \E i \in DOMAIN runs[r].task :
          \E time \in ElapsedTimes : LastTick(r, i, time)
    \/ \E r \in DOMAIN runs : MergeDone(r)
    \/ handleReset

SpecSequential == Init /\ [][NextSequential]_vars

----------------------------------------------------------------------------
(* The page when the simulator cannot be started.  No statement of the     *)
(* source rejects; the policy's promise is rejected only when the call of  *)
(* simulateSegmentProcessing throws in its promise executor (setInterval   *)
(* failing).  The await of the policy then throws in the same turn and the *)
(* catch block of startProcessing runs.  One fault per run.                *)

\* the splitting delay elapsed and processSequentially fails to start the
\* simulator of its first segment
SplitDoneFault(r) ==
    /\ r \in DOMAIN runs
    /\ runs[r].pc = "splitting"
    /\ runs[r].mode = "sequential"
    /\ Len(runs[r].segments) >= 1
    /\ LET update == ProcessingUpdate(runs[r].segments[1], 0)
           afterStatus == setStatus(job, "processing")
           afterReset == resetSegments(afterStatus)
           afterUpdate == updateSegment(afterReset, update)
       IN  /\ job' = handleRejection(afterUpdate)
           /\ emitted' = Emit(r, <<update>>)
           /\ passed' = <<afterStatus, afterReset, afterUpdate, job'>>
    /\ runs' = [runs EXCEPT ![r].pc = "rejected", ![r].task[1].st = "failed"]
    /\ UNCHANGED <<variant, mode, loads, nextJobId, selects, selected, starts, started, probe>>

\* processParallel: the stagger timer of task i fired and the simulator of
\* its segment fails to start; Promise.all is rejected
StaggerFireFault(r, i) ==
    /\ r \in DOMAIN runs
    /\ runs[r].pc = "policy"
    /\ runs[r].mode = "parallel"
    /\ i \in DOMAIN runs[r].task
    /\ runs[r].task[i].st = "waiting"
    /\ StaggerDue(variant, runs[r].segments, runs[r].task, i)
    /\ LET update == ProcessingUpdate(runs[r].segments[i], 0)
           afterUpdate == updateSegment(job, update)
       IN  /\ job' = handleRejection(afterUpdate)
           /\ emitted' = Emit(r, <<update>>)
           /\ passed' = <<afterUpdate, job'>>
    /\ runs' = [runs EXCEPT ![r].pc = "rejected", ![r].task[i].st = "failed"]
    /\ UNCHANGED <<variant, mode, loads, nextJobId, selects, selected, starts, started, probe>>

\* processSequentially: the last tick of task i resolves with time and the
\* simulator of the next segment fails to start
LastTickFault(r, i, time) ==
    /\ r \in DOMAIN runs
    /\ runs[r].pc = "policy"
    /\ runs[r].mode = "sequential"
    /\ i \in DOMAIN runs[r].task
    /\ i < Len(runs[r].segments)
    /\ runs[r].task[i].st = "running"
    /\ runs[r].task[i].step + 1 >= steps
    /\ LET run == runs[r]
           currentStep == run.task[i].step + 1
           updates == <<ProcessingUpdate(run.segments[i], Progress(currentStep)),
                        CompletedUpdate(run.segments[i], time),
                        ProcessingUpdate(run.segments[i + 1], 0)>>
       IN  /\ job' = handleRejection(ApplyUpdates(job, updates))
           /\ emitted' = Emit(r, updates)
           /\ passed' = JobStates(job, updates) \o <<job'>>
           /\ runs' = [runs EXCEPT ![r] =
                         [run EXCEPT
                             !.task = [run.task EXCEPT
                                          ![i] = [st |-> "done", step |-> currentStep,
                                                  time |-> Num(time)],
                                          ![i + 1].st = "failed"],
                             !.times = Append(run.times, time),
                             !.finished = Append(run.finished, i),
                             !.pc = "rejected"]]
    /\ UNCHANGED <<variant, mode, loads, nextJobId, selects, selected, starts, started, probe>>

NextFault ==
    \/ Next
    \/ \E r \in DOMAIN runs : SplitDoneFault(r)
    \/ \E r \in DOMAIN runs : \E i \in DOMAIN runs[r].task : StaggerFireFault(r, i)
    \/ \E r \in DOMAIN runs : \E i \in DOMAIN runs[r].task :
          \E time \in ElapsedTimes : LastTickFault(r, i, time)

SpecFault == Init /\ [][NextFault]_vars

----------------------------------------------------------------------------
(* Pure functions on their own: the partitioner *)

ProbeDurations == (-(MaxDurationSecs * Resolution))..(MaxDurationSecs * Resolution)

InitSegments ==
    /\ PageIdle
    /\ variant = "filter"
    /\ \E d \in ProbeDurations :
        probe = [op |-> "createVideoSegments", duration |-> d,
                 done |-> FALSE, threw |-> FALSE, out |-> <<>>]

CallCreateVideoSegments ==
    /\ probe.op = "createVideoSegments"
    /\ ~probe.done
    /\ probe' = [probe EXCEPT !.done = TRUE,
                              !.threw = createVideoSegmentsThrows(Num(probe.duration)),
                              !.out = createVideoSegments(probe.duration)]
    /\ UNCHANGED pageVars

NextSegments == CallCreateVideoSegments

SpecSegments == InitSegments /\ [][NextSegments]_vars

----------------------------------------------------------------------------
(* Pure functions on their own: the aggregator *)

\* per-segment times, ms: below, at and above the simulator's 500 ms floor
SampleTimes == {100, 500, 900, 1100}

RECURSIVE SeqsUpTo(_, _)
SeqsUpTo(S, n) ==
    IF n = 0 THEN {<<>>}
    ELSE LET shorter == SeqsUpTo(S, n - 1)
         IN  shorter \cup {Append(s, x) : s \in {t \in shorter : Len(t) = n - 1}, x \in S}

Overrides == {Undefined, Num(0), Num(2000)}

InitStats ==
    /\ PageIdle
    /\ \E v \in Variants, t \in SeqsUpTo(SampleTimes, MaxTimes), m \in Modes, o \in Overrides :
        /\ v = "nofilter" => o = Undefined
        /\ variant = v
        /\ probe = [op |-> "calculateStats", variant |-> v, segmentTimes |-> t,
                    mode |-> m, sequentialTime |-> o,
                    array |-> t, between |-> 0,
                    done |-> FALSE, out |-> Undefined,
                    doneAgain |-> FALSE, again |-> Undefined]

\* the first call; array is the content of the array object passed in
CallCalculateStats ==
    /\ probe.op = "calculateStats"
    /\ ~probe.done
    /\ probe' = [probe EXCEPT
                    !.done = TRUE,
                    !.out = calculateStats(probe.variant, probe.array,
                                           probe.mode, probe.sequentialTime),
                    !.array = segmentTimesAfterCall(probe.array)]
    /\ UNCHANGED pageVars

\* a call on another array between the two: it shares no state with them
CallCalculateStatsOnOther ==
    /\ probe.op = "calculateStats"
    /\ probe.done
    /\ ~probe.doneAgain
    /\ probe.between = 0
    /\ probe' = [probe EXCEPT !.between = 1]
    /\ UNCHANGED pageVars

\* the second call with the same array, mode and third argument
CallCalculateStatsAgain ==
    /\ probe.op = "calculateStats"
    /\ probe.done
    /\ ~probe.doneAgain
    /\ probe' = [probe EXCEPT
                    !.doneAgain = TRUE,
                    !.again = calculateStats(probe.variant, probe.array,
                                             probe.mode, probe.sequentialTime),
                    !.array = segmentTimesAfterCall(probe.array)]
    /\ UNCHANGED pageVars

NextStats ==
    \/ CallCalculateStats
    \/ CallCalculateStatsOnOther
    \/ CallCalculateStatsAgain

SpecStats == InitStats /\ [][NextStats]_vars

----------------------------------------------------------------------------
(* Claims about the partitioner *)

\* C1: for every duration D > 0, createVideoSegments(D) returns exactly
\* ceil(D/10) segments with ids 0..n-1 in order; segment i spans
\* [10*i, min(10*(i+1), D)); consecutive segments are contiguous, none is
\* empty or overlaps another, the first starts at 0 and the last ends at D;
\* D = 25 gives [0,10), [10,20), [20,25).
C1_PartitionCoverage ==
    (probe.op = "createVideoSegments" /\ probe.done /\ probe.duration > 0) =>
        LET D == probe.duration
            s == probe.out
            n == Len(s)
        IN  /\ n >= 1
            /\ (n - 1) * SegmentLength < D
            /\ D <= n * SegmentLength
            /\ \A i \in 1..n :
                /\ s[i].id = i - 1
                /\ s[i].startTime = SegmentLength * (i - 1)
                /\ s[i].endTime = Min(SegmentLength * i, D)
                /\ s[i].startTime < s[i].endTime
            /\ \A i \in 1..(n - 1) : s[i].endTime = s[i + 1].startTime
            /\ s[1].startTime = 0
            /\ s[n].endTime = D
            /\ D = 25 * Resolution =>
                  <<s[1].startTime, s[1].endTime, s[2].startTime, s[2].endTime,
                    s[3].startTime, s[3].endTime>>
                  = <<0, 10 * Resolution, 10 * Resolution, 20 * Resolution,
                      20 * Resolution, 25 * Resolution>>

\* C1 witness: the partitioner has run on D = 25 s and returned three segments
C1_Witness ==
    /\ probe.op = "createVideoSegments"
    /\ probe.done
    /\ probe.duration = 25 * Resolution
    /\ Len(probe.out) = 3

----------------------------------------------------------------------------
(* Claims about the aggregator *)

StatsDone == probe.op = "calculateStats" /\ probe.done

\* C7: for every non-empty sequence of times and in each variant, totalTime
\* is the sum of the times when mode is sequential and the maximum time plus
\* the variant's merge overhead (300 nofilter, 500 filter) when parallel.
C7_TotalTime ==
    (StatsDone /\ probe.segmentTimes # <<>>) =>
        probe.out.totalTime =
            IF probe.mode = "sequential"
            THEN Num(Sum(probe.segmentTimes))
            ELSE Num(MaxOf(probe.segmentTimes)
                     + (IF probe.variant = "filter" THEN 500 ELSE 300))

\* C7 witness: a parallel call on three times that are not all equal, so that
\* sum and max + overhead differ
C7_Witness ==
    /\ StatsDone
    /\ probe.mode = "parallel"
    /\ probe.variant = "filter"
    /\ probe.segmentTimes = <<900, 1100, 500>>
    /\ probe.out.totalTime = Num(1600)

\* C8 (as claimed): in each variant and for both modes speedupFactor is
\* sum / (max + merge overhead) rounded to 2 decimals (held in hundredths),
\* also when the executed mode is sequential.  Stated for calls without the
\* optional third argument and with at least one time.
C8_SpeedupIsWhatIfRatio ==
    (StatsDone /\ probe.segmentTimes # <<>> /\ probe.sequentialTime = Undefined) =>
        probe.out.speedupFactor =
            RoundedRatio(Sum(probe.segmentTimes),
                         Num(MaxOf(probe.segmentTimes) + MergeOverhead(probe.variant)))

\* C9 (as claimed): in each variant, for every non-empty time sequence and
\* both modes, sequentialTime = sum of the times and parallelTime = max time
\* + merge overhead, whatever the optional override argument.
C9_BothTimesDefined ==
    (StatsDone /\ probe.segmentTimes # <<>>) =>
        /\ probe.out.sequentialTime = Num(Sum(probe.segmentTimes))
        /\ probe.out.parallelTime =
              Num(MaxOf(probe.segmentTimes) + MergeOverhead(probe.variant))

\* C10 (as claimed): for an empty perSegmentTimes calculateStats returns
\* sequentialTime = 0, parallelTime = the merge overhead and speedupFactor = 0
\* in both modes, and no field is infinite or undefined.
C10_EmptyTimes ==
    (StatsDone /\ probe.segmentTimes = <<>>) =>
        /\ probe.out.sequentialTime = Num(0)
        /\ probe.out.parallelTime = Num(MergeOverhead(probe.variant))
        /\ probe.out.speedupFactor = Num(0)
        /\ IsNum(probe.out.totalTime)

----------------------------------------------------------------------------
(* Claims about the scheduling policies and the job state container *)

\* the update at position k of the last step is the completed update of the
\* segment with this id, emitted by run r
IsCompletedUpdate(k, r, id) ==
    /\ emitted[k].run = r
    /\ emitted[k].segment.id = id
    /\ emitted[k].segment.status = "completed"

\* C2: in processSequentially every update emitted for segment i+1, its
\* processing/0 update included, comes strictly after the completed update
\* of segment i: that update is earlier in the same step, or segment i
\* completed in an earlier step.
C2_SequentialOrder ==
    \A k \in DOMAIN emitted :
        LET r == emitted[k].run
            id == emitted[k].segment.id
        IN  (runs[r].mode = "sequential" /\ id > 0) =>
                \/ \E before \in 1..(k - 1) : IsCompletedUpdate(before, r, id - 1)
                \/ /\ runs[r].task[id].st = "done"
                   /\ \A later \in k..Len(emitted) : ~IsCompletedUpdate(later, r, id - 1)

\* C2 witness: a sequential run has just completed segment 0 and, in the same
\* step and after it, started segment 1
C2_Witness ==
    \E k \in DOMAIN emitted :
        /\ k > 1
        /\ runs[emitted[k].run].mode = "sequential"
        /\ emitted[k].segment.id = 1
        /\ emitted[k].segment.status = "processing"
        /\ emitted[k].segment.progress = 0
        /\ IsCompletedUpdate(k - 1, emitted[k].run, 0)

\* the join of processParallel: a parallel run that has reached the merging
\* delay has all its tasks done and one time per segment
ParallelJoin ==
    \A r \in DOMAIN runs :
        (runs[r].mode = "parallel" /\ runs[r].pc = "merging") =>
            /\ \A i \in DOMAIN runs[r].task : runs[r].task[i].st = "done"
            /\ Len(runs[r].finished) = Len(runs[r].segments)
            /\ Len(runs[r].segmentTimes) = Len(runs[r].segments)

\* the job is never in status merging while one of its segments is pending
\* or processing
NoMergingBeforeAllCompleted ==
    (job # NoJob /\ job.status = "merging") =>
        \A i \in DOMAIN job.segments :
            job.segments[i].status \notin {"pending", "processing"}

\* C3 (as claimed): processParallel resolves only after every segment has
\* emitted its completed update, whatever the order in which the segments
\* finish, and so the job is never moved to status merging while one of its
\* segments is still pending or processing.
C3_JoinBeforeMerging == ParallelJoin /\ NoMergingBeforeAllCompleted

\* C4: for both policies and every completion order, the sequence of times
\* the policy returns, and the perSegmentTimes of the stats computed from it,
\* is ordered by segment id: entry i is the time the simulator of the segment
\* with id i resolved with.
C4_TimesBySegmentId ==
    \A r \in DOMAIN runs :
        runs[r].pc = "merging" =>
            LET stats == calculateStats(variant, runs[r].segmentTimes, runs[r].mode, Undefined)
            IN  /\ Len(stats.perSegmentTimes) = Len(runs[r].segments)
                /\ \A i \in DOMAIN runs[r].segments :
                      /\ runs[r].segments[i].id = i - 1
                      /\ runs[r].segmentTimes[i] = runs[r].task[i].time.val
                      /\ stats.perSegmentTimes[i] = runs[r].task[i].time.val

\* C4 witness: a parallel run returned after segment 1 finished first, with
\* different times for the two segments
C4_Witness ==
    \E r \in DOMAIN runs :
        /\ runs[r].mode = "parallel"
        /\ runs[r].pc = "merging"
        /\ runs[r].finished = <<2, 1>>
        /\ runs[r].segmentTimes = <<600, 900>>

\* C5 (as claimed): an update or status transition of a run of a superseded
\* job never mutates the new job: a job on which startProcessing was never
\* called stays idle, without stats, with every segment pending at progress 0.
C5_StaleUpdatesDropped ==
    (job # NoJob /\ job.id \notin started) =>
        /\ job.status = "idle"
        /\ job.stats = Undefined
        /\ \A i \in DOMAIN job.segments :
              /\ job.segments[i].status = "pending"
              /\ job.segments[i].progress = 0

\* a step that is one onSegmentUpdate call and nothing else: a stagger timer
\* or an interval tick before the last
SingleUpdateStep ==
    /\ Len(emitted') = 1
    /\ emitted'[1].run \in DOMAIN runs
    /\ runs[emitted'[1].run].pc = "policy"

\* C6: updateSegment(u) on a non-null job replaces exactly the segment whose
\* id equals u.id with u and leaves every other segment, the number and order
\* of the segments and the job's id, status, mode and stats unchanged; an
\* update whose id matches no segment changes nothing.
C6_ReplaceById ==
    [][(SingleUpdateStep /\ job # NoJob) =>
        LET u == emitted'[1].segment
        IN  /\ job' # NoJob
            /\ job'.id = job.id
            /\ job'.status = job.status
            /\ job'.mode = job.mode
            /\ job'.stats = job.stats
            /\ DOMAIN job'.segments = DOMAIN job.segments
            /\ \A i \in DOMAIN job.segments :
                  job'.segments[i] =
                      IF job.segments[i].id = u.id THEN u ELSE job.segments[i]
            /\ (\A i \in DOMAIN job.segments : job.segments[i].id # u.id) => job' = job
      ]_vars

\* C6 witness: in a parallel run an update of segment 1 has just replaced
\* segment 1 of the job while segment 0 is in the middle of its processing
C6_Witness ==
    /\ Len(emitted) = 1
    /\ job # NoJob
    /\ Len(job.segments) = 2
    /\ emitted[1].segment.id = 1
    /\ job.segments[2] = emitted[1].segment
    /\ job.segments[1].status = "processing"
    /\ job.segments[1].progress > 0
    /\ job.segments[2].progress > 0

----------------------------------------------------------------------------
(* Claims about the orchestration of a run *)

\* C11 (as claimed): no partial success: in every reachable job state, across
\* first runs and re-runs, a job in status error has no stats attached, and a
\* job that has stats attached has every one of its segments completed.
C11_NoPartialSuccess ==
    job # NoJob =>
        /\ job.status = "error" => job.stats = Undefined
        /\ job.stats # Undefined =>
              \A i \in DOMAIN job.segments : job.segments[i].status = "completed"

----------------------------------------------------------------------------
(* Claims about the update stream of one segment *)

\* the task of segment i of run r before a step; a run created by the step
\* had no task yet
TaskBefore(r, i) ==
    IF r \in DOMAIN runs THEN runs[r].task[i]
    ELSE [st |-> "waiting", step |-> 0, time |-> Undefined]

\* the updates the step delivered to onSegmentUpdate for the segment of task
\* i of run r, in order
UpdatesOf(r, i) ==
    SelectSeq(emitted', LAMBDA e : e.run = r /\ e.segment.id = i - 1)

\* the progress values of the updates with status processing among them
ProgressValuesOf(r, i) ==
    LET processing == SelectSeq(UpdatesOf(r, i),
                                LAMBDA e : e.segment.status = "processing")
    IN  [k \in DOMAIN processing |-> processing[k].segment.progress]

\* C12: for one segment within one run, under either policy, the progress
\* values delivered to the update callback are non-decreasing, are 0 for the
\* initial update and step/20 * 100 for step = 1..20 after it, one value per
\* step, stay within [0,100], and the last one is exactly 100.
C12_MonotonicProgress ==
    [][\A r \in DOMAIN runs' : \A i \in DOMAIN runs'[r].task :
          LET before == TaskBefore(r, i)
              after == runs'[r].task[i]
              values == ProgressValuesOf(r, i)
          IN  /\ after.step \in {before.step, before.step + 1}
              /\ after.step \in 0..20
              /\ values =
                    IF before.st = "waiting" /\ after.st # "waiting" THEN <<0>>
                    ELSE IF after.step = before.step + 1
                         THEN <<(after.step * 100) \div 20>>
                         ELSE <<>>
              /\ \A k \in DOMAIN values :
                    /\ values[k] \in 0..100
                    /\ before.st # "waiting" => values[k] >= (before.step * 100) \div 20
              /\ (after.st = "done" /\ before.st # "done") =>
                    /\ after.step = 20
                    /\ values = <<100>>
      ]_vars

\* C12 witness: the simulator of segment 1 has just delivered its last
\* progress value, 100, after twenty steps
C12_Witness ==
    \E k \in DOMAIN emitted :
        /\ emitted[k].segment.id = 1
        /\ emitted[k].segment.status = "processing"
        /\ emitted[k].segment.progress = 100
        /\ runs[emitted[k].run].task[2].step = 20
        /\ runs[emitted[k].run].task[2].st = "done"

\* status, progress and processingTime of the updates of task i of run r
ShapesOf(r, i) ==
    LET updates == UpdatesOf(r, i)
    IN  [k \in DOMAIN updates |->
            <<updates[k].segment.status, updates[k].segment.progress,
              updates[k].segment.processingTime>>]

\* the value the await of the simulator of task i yielded to the policy of
\* run r: the last element of times (sequential) or position i of the
\* results of Promise.all (parallel)
ResolvedWith(r, i) ==
    IF runs'[r].mode = "sequential"
    THEN Num(runs'[r].times[Len(runs'[r].times)])
    ELSE runs'[r].values[i]

\* C13: for each segment of a run, under either policy, the update callback
\* receives, in this order and nothing else: one update (processing, 0) when
\* the segment is started, then one update with status processing per
\* simulator tick, twenty in all, then one update (completed, 100,
\* processingTime = the value the simulator resolved with) in the turn of the
\* twentieth tick; no tick or update for the segment follows it.
C13_UpdateProtocol ==
    [][\A r \in DOMAIN runs' : \A i \in DOMAIN runs'[r].task :
          LET before == TaskBefore(r, i)
              after == runs'[r].task[i]
              shapes == ShapesOf(r, i)
              kept == runs'[r].segments[i].processingTime
          IN  CASE before.st = "waiting" /\ after.st = "waiting" ->
                      shapes = <<>>
                [] before.st = "waiting" /\ after.st = "running" ->
                      /\ after.step = 0
                      /\ shapes = <<<<"processing", 0, kept>>>>
                [] before.st = "running" /\ after.st = "running" ->
                      \/ after.step = before.step /\ shapes = <<>>
                      \/ /\ after.step = before.step + 1
                         /\ after.step < 20
                         /\ Len(shapes) = 1
                         /\ shapes[1][1] = "processing"
                [] before.st = "running" /\ after.st = "done" ->
                      /\ before.step = 19
                      /\ after.step = 20
                      /\ Len(shapes) = 2
                      /\ shapes[1][1] = "processing"
                      /\ shapes[2] = <<"completed", 100, ResolvedWith(r, i)>>
                      /\ after.time = ResolvedWith(r, i)
                [] before.st = "done" /\ after.st = "done" ->
                      /\ after = before
                      /\ shapes = <<>>
                [] OTHER -> FALSE
      ]_vars

\* C13 witness: a parallel run has just delivered the completed update of
\* segment 0, with the time its simulator resolved with, straight after the
\* update of the twentieth tick, while segment 1 is still being processed
C13_Witness ==
    /\ Len(emitted) = 2
    /\ emitted[1].segment.id = 0
    /\ emitted[1].segment.status = "processing"
    /\ emitted[2].segment.id = 0
    /\ emitted[2].segment.status = "completed"
    /\ emitted[2].segment.processingTime = Num(900)
    /\ runs[emitted[2].run].mode = "parallel"
    /\ Len(runs[emitted[2].run].segments) = 2
    /\ runs[emitted[2].run].values[1] = Num(900)
    /\ runs[emitted[2].run].task[2].st = "running"

----------------------------------------------------------------------------
(* Claims about the job states *)

\* the job states of the last step: those its updaters produced one after
\* the other, and the one it left
Reached == {passed[k] : k \in DOMAIN passed} \cup {job}

\* C14 (as claimed): in every reachable job state a segment's progress is 100
\* exactly when its status is completed: no segment has status processing
\* and progress 100, and every completed segment has progress 100.
C14_FullProgressIffCompleted ==
    \A j \in Reached :
        j # NoJob =>
            \A i \in DOMAIN j.segments :
                j.segments[i].progress = 100 <=> j.segments[i].status = "completed"

\* C14 (amended): in every job state a completed segment has progress 100
\* and a segment with progress 100 is processing or completed; in the job
\* state a turn leaves, progress is 100 exactly when the status is completed.
\* The update of the twentieth tick puts the segment at status processing
\* with progress 100 until the completed update of the same turn replaces it.
C14_FullProgressIffCompletedAtTurnEnd ==
    /\ \A j \in Reached :
          j # NoJob =>
              \A i \in DOMAIN j.segments :
                  /\ j.segments[i].status = "completed" => j.segments[i].progress = 100
                  /\ j.segments[i].progress = 100 =>
                        j.segments[i].status \in {"processing", "completed"}
    /\ job # NoJob =>
          \A i \in DOMAIN job.segments :
              job.segments[i].progress = 100 <=> job.segments[i].status = "completed"

\* C14 witness: the turn of a twentieth tick: the job passed through a state
\* with segment 0 processing at progress 100 and is left with it completed
C14_Witness ==
    /\ job # NoJob
    /\ Len(job.segments) >= 1
    /\ job.segments[1].status = "completed"
    /\ job.segments[1].progress = 100
    /\ \E k \in DOMAIN passed :
          /\ passed[k] # NoJob
          /\ passed[k].segments[1].status = "processing"
          /\ passed[k].segments[1].progress = 100

\* C15 (as claimed): in every reachable job state, across first runs and
\* re-runs, a segment carries a processingTime only if its status is
\* completed; a pending or processing segment has none.
C15_TimeOnlyWhenCompleted ==
    \A j \in Reached :
        j # NoJob =>
            \A i \in DOMAIN j.segments :
                j.segments[i].processingTime # Undefined =>
                    j.segments[i].status = "completed"

\* the job states of a step in order: the state before it and the states its
\* updaters produce
Chain == <<job>> \o passed'

\* position k of Chain is the state before the updater of startProcessing
\* that resets the segments: the second updater of a turn that ends a
\* splitting delay
BeforeReset(k) ==
    /\ k = 2
    /\ \E r \in DOMAIN runs : runs[r].pc = "splitting" /\ runs'[r].pc # "splitting"

StatusRank(status) ==
    CASE status = "pending" -> 0
      [] status = "processing" -> 1
      [] status = "completed" -> 2

\* C16 (as claimed): the status of each segment of the job moves only
\* forward, pending to processing to completed, from one job state to the
\* next; the only backward move is the reset of all segments to pending at
\* the start of a run's processing phase.
C16_SegmentStatusForward ==
    [][\A k \in 1..(Len(Chain) - 1) :
          (/\ Chain[k] # NoJob
           /\ Chain[k + 1] # NoJob
           /\ Chain[k].id = Chain[k + 1].id
           /\ ~BeforeReset(k)) =>
              \A i \in DOMAIN Chain[k].segments :
                  StatusRank(Chain[k].segments[i].status)
                      <= StatusRank(Chain[k + 1].segments[i].status)
      ]_vars

\* the moves of the job's status the claim allows
StatusMoves ==
    {<<"idle", "converting">>, <<"converting", "splitting">>,
     <<"splitting", "processing">>, <<"processing", "merging">>,
     <<"merging", "completed">>, <<"completed", "converting">>,
     <<"processing", "error">>, <<"merging", "error">>}

\* C17 (as claimed): from one job state to the next the status of a job
\* stays or advances along idle -> converting -> splitting -> processing ->
\* merging -> completed, or goes completed -> converting (re-run) or
\* processing/merging -> error; none is skipped, and the job is in status
\* merging or completed only once the policy of a run of this job has
\* returned.
C17_StatusSequence ==
    [][\A k \in 1..(Len(Chain) - 1) :
          (/\ Chain[k] # NoJob
           /\ Chain[k + 1] # NoJob
           /\ Chain[k].id = Chain[k + 1].id) =>
              /\ \/ Chain[k + 1].status = Chain[k].status
                 \/ <<Chain[k].status, Chain[k + 1].status>> \in StatusMoves
              /\ (Chain[k + 1].status = "merging" /\ Chain[k].status # "merging") =>
                    \E r \in DOMAIN runs' :
                        /\ runs'[r].jobId = Chain[k + 1].id
                        /\ runs'[r].pc = "merging"
      ]_vars

----------------------------------------------------------------------------
(* Claims about failures *)

\* the step rejects the policy of run r
Rejects(r) ==
    /\ runs[r].pc # "rejected"
    /\ r \in DOMAIN runs'
    /\ runs'[r].pc = "rejected"

\* C18: when the policy of a run is rejected, the catch block of
\* startProcessing sets the status of the job to error with the message
\* 'Processing failed' as the last updater of that turn and touches nothing
\* else; from then on the run stays rejected: it starts no segment again,
\* never reaches the merging delay or the stats computation, and no later
\* step of the run changes the job's status or stats.
C18_RejectionMarksError ==
    [][\A r \in DOMAIN runs :
          /\ Rejects(r) =>
                /\ runs[r].pc \in {"splitting", "policy"}
                /\ Len(passed') >= 2
                /\ LET prev == passed'[Len(passed') - 1]
                   IN  job' = IF prev = NoJob THEN NoJob
                              ELSE [prev EXCEPT !.status = "error",
                                                !.error = Str("Processing failed")]
                /\ \A k \in 1..(Len(passed') - 1) :
                      passed'[k] # NoJob =>
                          passed'[k].status \notin {"merging", "completed", "error"}
                                \/ passed'[k].status = job.status
                /\ job # NoJob /\ job' # NoJob => job'.stats = job.stats
          /\ runs[r].pc = "rejected" =>
                /\ r \in DOMAIN runs'
                /\ runs'[r].pc = "rejected"
                /\ runs'[r].segmentTimes = <<>>
                /\ \A i \in DOMAIN runs[r].task :
                      /\ runs[r].task[i].st = "failed" => runs'[r].task[i] = runs[r].task[i]
                      /\ runs[r].mode = "sequential" => runs'[r].task[i] = runs[r].task[i]
                /\ (runs'[r] # runs[r] /\ job # NoJob) =>
                      /\ job' # NoJob
                      /\ job'.status = job.status
                      /\ job'.stats = job.stats
                      /\ job'.error = job.error
      ]_vars

\* C18 witness: the simulator of segment 1 of a sequential run could not be
\* started after segment 0 completed; the job of the run is in status error
\* with the message, without stats, segment 0 completed and segment 1 left
\* processing
C18_Witness ==
    \E r \in DOMAIN runs :
        /\ runs[r].pc = "rejected"
        /\ runs[r].mode = "sequential"
        /\ Len(emitted) = 3
        /\ emitted[3].run = r
        /\ job # NoJob
        /\ job.id = runs[r].jobId
        /\ job.status = "error"
        /\ job.error = Str("Processing failed")
        /\ job.stats = Undefined
        /\ job.segments[1].status = "completed"
        /\ job.segments[2].status = "processing"

\* C19 (as claimed): a non-positive or non-finite duration is rejected: no
\* job is ever created from a file with such a duration, and no job has zero
\* segments.
C19_BadDurationRejected ==
    \A j \in Reached :
        j # NoJob =>
            /\ IsNum(j.originalFile.duration)
            /\ j.originalFile.duration.val > 0
            /\ Len(j.segments) >= 1

\* C20: for every duration <= 0 createVideoSegments returns the empty
\* sequence and raises no error.
C20_NonPositiveGivesEmpty ==
    (probe.op = "createVideoSegments" /\ probe.done /\ probe.duration <= 0) =>
        /\ probe.out = <<>>
        /\ ~probe.threw

\* C20 witness: the partitioner has run on D = -25 s, for which
\* Math.ceil(D / 10) is -2, and returned no segment
C20_Witness ==
    /\ probe.op = "createVideoSegments"
    /\ probe.done
    /\ probe.duration = -(25 * Resolution)
    /\ MathCeilDiv(probe.duration, SegmentLength) = -2
    /\ probe.out = <<>>

----------------------------------------------------------------------------
(* Further claims about the partitioner *)

\* C21: every segment createVideoSegments returns for a duration D > 0 has
\* 0 <= startTime < endTime, so there is no empty trailing segment, also
\* when D is an exact multiple of 10, and has status pending, progress 0 and
\* no processingTime.
C21_SegmentsWellFormed ==
    (probe.op = "createVideoSegments" /\ probe.done /\ probe.duration > 0) =>
        \A i \in DOMAIN probe.out :
            /\ 0 <= probe.out[i].startTime
            /\ probe.out[i].startTime < probe.out[i].endTime
            /\ probe.out[i].status = "pending"
            /\ probe.out[i].progress = 0
            /\ probe.out[i].processingTime = Undefined

\* C21 witness: the partitioner has run on D = 20 s, an exact multiple of the
\* segment length, and returned two segments, the last one [10, 20)
C21_Witness ==
    /\ probe.op = "createVideoSegments"
    /\ probe.done
    /\ probe.duration = 20 * Resolution
    /\ Len(probe.out) = 2
    /\ probe.out[2].startTime = 10 * Resolution
    /\ probe.out[2].endTime = 20 * Resolution

----------------------------------------------------------------------------
(* Further claims about the aggregator *)

\* the simulator's floor, Math.max(500, ...), ms
SIMULATOR_FLOOR == 500

\* C22 (as claimed): for every sequence of at least two times, each at least
\* the simulator's floor of 500 ms, and in each variant, the parallelTime of
\* the stats (max + merge overhead) is strictly less than their
\* sequentialTime (sum).  Stated for calls without the optional third
\* argument.
C22_ParallelFaster ==
    (/\ StatsDone
     /\ Len(probe.segmentTimes) >= 2
     /\ \A i \in DOMAIN probe.segmentTimes : probe.segmentTimes[i] >= SIMULATOR_FLOOR
     /\ probe.sequentialTime = Undefined) =>
        /\ IsNum(probe.out.parallelTime)
        /\ IsNum(probe.out.sequentialTime)
        /\ probe.out.parallelTime.val < probe.out.sequentialTime.val

----------------------------------------------------------------------------
(* Further claims about the job states *)

\* C24 (as claimed): whenever the status of the job is merging or completed,
\* every segment of the job is completed with progress 100; and when the
\* status is completed, stats.perSegmentTimes has one entry per segment and
\* entry i is the processingTime of the segment with id i.
C24_CompletionConsistency ==
    \A j \in Reached :
        j # NoJob =>
            /\ j.status \in {"merging", "completed"} =>
                  \A i \in DOMAIN j.segments :
                      /\ j.segments[i].status = "completed"
                      /\ j.segments[i].progress = 100
            /\ j.status = "completed" =>
                  /\ j.stats # Undefined
                  /\ Len(j.stats.perSegmentTimes) = Len(j.segments)
                  /\ \A i \in DOMAIN j.segments :
                        /\ j.segments[i].id = i - 1
                        /\ j.segments[i].processingTime = Num(j.stats.perSegmentTimes[i])

\* C25 (as claimed): during the processing phase of a sequential run, first
\* run or re-run, the job state has at most one segment in status
\* processing; when segment i is processing, every segment with a smaller id
\* is completed and every segment with a larger id is pending with
\* progress 0.
C25_SequentialOneAtATime ==
    \A j \in Reached :
        (j # NoJob /\ j.status = "processing" /\ j.mode = "sequential") =>
            \A i \in DOMAIN j.segments :
                j.segments[i].status = "processing" =>
                    \A k \in DOMAIN j.segments :
                        /\ k < i => j.segments[k].status = "completed"
                        /\ k > i => /\ j.segments[k].status = "pending"
                                    /\ j.segments[k].progress = 0

----------------------------------------------------------------------------
(* Claims about reset, the guards of the buttons and termination *)

\* the step leaves the job null in every state its updaters produce
StaysNull ==
    /\ job' = NoJob
    /\ \A k \in DOMAIN passed' : passed'[k] = NoJob

\* C26 (as claimed): after handleReset and until a new file is selected the
\* job state stays null: while the job is null, every step leaves it null,
\* whatever the updaters of earlier runs do, except the arrival of the
\* metadata of a file that was selected after the reset.
C26_NullUntilNewFile ==
    [][job = NoJob =>
          \/ StaysNull
          \/ \E l \in loads \ loads' : ~l.beforeReset
      ]_vars

\* The part of C26 about the runs: while the job is null, every segment
\* update, status updater and stats attachment of a run started earlier leaves
\* it null and lets the run go on; the job becomes non-null only when a
\* handleFileSelect call receives its metadata, and that can be a call made
\* before the reset.
NullUntilLoad ==
    [][job = NoJob =>
          \/ /\ StaysNull
             /\ \A r \in DOMAIN runs :
                   r \in DOMAIN runs' => runs'[r].pc # "rejected"
          \/ loads' # loads /\ selects' = selects
      ]_vars

\* the job is null after a reset (a job has been created before)
\* and a run started before the reset has just delivered the updates of a
\* twentieth tick and its merging updater to it
NullAfterResetUnderUpdates ==
    /\ job = NoJob
    /\ nextJobId > 1
    /\ Len(emitted) >= 2
    /\ Len(passed) >= 3
    /\ runs[emitted[1].run].pc = "merging"

\* the runs in flight that were started on job j
RunsOf(j) == {r \in DOMAIN runs : runs[r].jobId = j.id}

\* the step starts a run
RunStarts == starts' # starts

\* the step resets the job or puts another job in its place
JobLeaves == job # NoJob /\ (job' = NoJob \/ job'.id # job.id)

\* the guards of the buttons: no run starts and no reset is made while the
\* status of the job is converting, splitting, processing or merging
ButtonsGuarded ==
    [][/\ RunStarts => job # NoJob /\ job.status \in {"idle", "completed"}
       /\ job # NoJob /\ job' = NoJob => ~isProcessing(job)
      ]_vars

\* C27: a run starts only from status idle or completed and no reset is made
\* while the status is converting, splitting, processing or merging; hence at
\* most one run is in flight at any time, and no job is reset or replaced
\* while a run started on it is in flight.
C27_OneRunInFlight ==
    [][/\ RunStarts => job # NoJob /\ job.status \in {"idle", "completed"}
       /\ job # NoJob /\ job' = NoJob => ~isProcessing(job)
       /\ Cardinality(DOMAIN runs') <= 1
       /\ JobLeaves => RunsOf(job) = {}
      ]_vars

----------------------------------------------------------------------------
(* Termination: the page without New Video, its timers firing fairly *)

\* a timer of the page fires: the delays of startProcessing, the stagger
\* timers of processParallel and the interval of simulateSegmentProcessing
TimerFires ==
    \/ \E r \in DOMAIN runs : ConvertDone(r)
    \/ \E r \in DOMAIN runs : SplitDone(r)
    \/ \E r \in DOMAIN runs : \E i \in DOMAIN runs[r].task : StaggerFire(r, i)
    \/ \E r \in DOMAIN runs : \E i \in DOMAIN runs[r].task : Tick(r, i)
    \/ \E r \in DOMAIN runs : \E i \in DOMAIN runs[r].task :
          \E time \in ElapsedTimes : LastTick(r, i, time)
    \/ \E r \in DOMAIN runs : MergeDone(r)

NextNoReset ==
    \/ \E file \in Files : FileSelect(file)
    \/ \E l \in loads : LoadResolve(l)
    \/ \E l \in loads : LoadReject(l)
    \/ \E m \in Modes : SetMode(m)
    \/ \E m \in Modes : StartProcessing(m)
    \/ TimerFires

SpecNoReset == Init /\ [][NextNoReset]_vars /\ WF_vars(TimerFires)

\* the job is completed, with every segment completed and stats attached
JobCompleted ==
    /\ job # NoJob
    /\ job.status = "completed"
    /\ \A i \in DOMAIN job.segments :
          job.segments[i].status = "completed" /\ job.segments[i].progress = 100
    /\ job.stats # Undefined

\* every run in flight goes on to its end
RunsEnd == (runs # <<>>) ~> (runs = <<>>)

\* a simulator invocation resolves on its twentieth tick, and no run fails
TwentyTicks ==
    \A r \in DOMAIN runs :
        /\ runs[r].pc # "rejected"
        /\ \A i \in DOMAIN runs[r].task :
              /\ runs[r].task[i].step <= steps
              /\ runs[r].task[i].st = "done" <=> runs[r].task[i].step = steps

\* C28: with the timers firing fairly and no reset, a run started on a job
\* eventually leaves the job completed, every segment completed and stats
\* attached; every simulator invocation resolves on its twentieth tick and
\* none fails.
C28_RunsComplete ==
    /\ (runs # <<>>) ~> (runs = <<>> /\ JobCompleted)
    /\ []TwentyTicks

----------------------------------------------------------------------------
(* Claims about the stagger of processParallel and the simulator's timing *)

\* the position in run r of the segment an update is about
TaskOf(r, update) ==
    CHOOSE i \in DOMAIN runs'[r].segments : runs'[r].segments[i].id = update.id

\* task i of run r makes its first update in this step
Enters(r, i) ==
    /\ r \in DOMAIN runs
    /\ runs[r].task[i].st = "waiting"
    /\ runs'[r].task[i].st # "waiting"

\* C29: in processParallel nothing is emitted inside the call: every task is
\* still waiting for its stagger timer when the call has been made; a segment
\* emits an update only once its own stagger timer of id * unit ms has fired,
\* the first one being processing at progress 0; and the segments enter
\* processing in ascending order of id.
C29_StaggeredStart ==
    [][\A r \in DOMAIN runs' : runs'[r].mode = "parallel" =>
          /\ (r \in DOMAIN runs /\ runs[r].pc = "splitting"
                                /\ runs'[r].pc # "splitting") =>
                /\ emitted' = <<>>
                /\ \A i \in DOMAIN runs'[r].task : runs'[r].task[i].st = "waiting"
          /\ \A k \in DOMAIN emitted' :
                emitted'[k].run = r =>
                    runs'[r].task[TaskOf(r, emitted'[k].segment)].st # "waiting"
          /\ \A i \in DOMAIN runs'[r].task :
                Enters(r, i) =>
                    /\ emitted' = Emit(r, <<ProcessingUpdate(runs[r].segments[i], 0)>>)
                    /\ \A k \in DOMAIN runs[r].task :
                          runs[r].segments[k].id < runs[r].segments[i].id
                              => runs[r].task[k].st # "waiting"
      ]_vars

\* C29 witness: the stagger timer of the second segment of a parallel run
\* has just fired, after the first segment began to tick
C29_Witness ==
    /\ Len(emitted) = 1
    /\ emitted[1].run \in DOMAIN runs
    /\ LET run == runs[emitted[1].run]
       IN  /\ run.mode = "parallel"
           /\ Len(run.segments) = 2
           /\ emitted[1].segment = ProcessingUpdate(run.segments[2], 0)
           /\ run.task[2].st = "running" /\ run.task[2].step = 0
           /\ run.task[1].step > 0

----------------------------------------------------------------------------
(* Pure functions on their own: the timing of simulateSegmentProcessing *)

\* Times of the simulator are held in units of 1/TimeScale ms, so that they
\* are integers: the multipliers are in tenths, the span is divided by 10 and
\* is in units of 1/Resolution s
TimeScale == 10 * 10 * Resolution

Ms(x) == x * TimeScale

SIMULATED_PROCESSING_BASE == 800

Filters == {"grayscale", "blur", "edge", "colorboost"}

\* Math.random() * 200 - 100, with Math.random() in [0, 1), in whole ms
Variances == (-100)..99

\* filter === 'edge' ? 1.5 : filter === 'blur' ? 1.3 : 1, in tenths
filterMultiplier(filter) ==
    IF filter = "edge" THEN 15 ELSE IF filter = "blur" THEN 13 ELSE 10

\* baseTime * filterMultiplier * (segmentDuration / 10) in part_003,
\* SIMULATED_PROCESSING_BASE * (segmentDuration / 10) in SegmentDownload.tsx
totalTime(which, filter, segment) ==
    LET segmentDuration == segment.endTime - segment.startTime
    IN  IF which = "filter"
        THEN SIMULATED_PROCESSING_BASE * filterMultiplier(filter) * segmentDuration
        ELSE SIMULATED_PROCESSING_BASE * 10 * segmentDuration

\* the sum without Math.max
finalTimeWithoutFloor(total, variance) == total + Ms(variance)

\* Math.max(500, totalTime + variance)
finalTime(total, variance) == Max(Ms(SIMULATOR_FLOOR), total + Ms(variance))

\* the delay given to setInterval: finalTime / steps
intervalDelay(final) == final \div steps

\* the segments createVideoSegments makes of the durations of the probe
ProbeSegments ==
    UNION {{createVideoSegments(d)[i] : i \in DOMAIN createVideoSegments(d)} :
              d \in ProbeDurations}

InitSimulator ==
    /\ PageIdle
    /\ variant = "filter"
    /\ \E v \in Variants, segment \in ProbeSegments, variance \in Variances :
          \E filter \in IF v = "filter" THEN {Str(f) : f \in Filters} ELSE {Undefined} :
              probe = [op |-> "simulateSegmentProcessing", variant |-> v,
                       segment |-> segment, filter |-> filter,
                       variance |-> variance, done |-> FALSE,
                       finalTime |-> 0, delay |-> 0]

\* simulateSegmentProcessing up to its setInterval
CallSimulateSegmentProcessing ==
    /\ probe.op = "simulateSegmentProcessing"
    /\ ~probe.done
    /\ LET filter == IF probe.filter = Undefined THEN "" ELSE probe.filter.val
           final == finalTime(totalTime(probe.variant, filter, probe.segment),
                              probe.variance)
       IN  probe' = [probe EXCEPT !.done = TRUE,
                                  !.finalTime = final,
                                  !.delay = intervalDelay(final)]
    /\ UNCHANGED pageVars

NextSimulator == CallSimulateSegmentProcessing

SpecSimulator == InitSimulator /\ [][NextSimulator]_vars

\* the multiplier of the claim, in tenths
ClaimedMultiplier ==
    IF probe.variant = "nofilter" THEN 10
    ELSE CASE probe.filter = Str("edge") -> 15
           [] probe.filter = Str("blur") -> 13
           [] OTHER -> 10

\* C30: for every segment span, filter and jitter the target duration of the
\* simulator is max(500, 800 * m * span / 10 + jitter) ms, with m = 1.5 for
\* edge, 1.3 for blur and 1 otherwise (always 1 without a filter); it is
\* never below 500 ms, and the interval of the 20 ticks is target / 20.
C30_TargetDuration ==
    (probe.op = "simulateSegmentProcessing" /\ probe.done) =>
        LET span == probe.segment.endTime - probe.segment.startTime
            \* (800 * m * span / 10 + jitter) * TimeScale
            raw == 800 * ClaimedMultiplier * span + probe.variance * TimeScale
        IN  /\ probe.finalTime = (IF raw >= 500 * TimeScale THEN raw ELSE 500 * TimeScale)
            /\ probe.finalTime >= 500 * TimeScale
            /\ probe.delay * 20 = probe.finalTime

\* C30 witness: a blur segment whose target is above the floor, the
\* multiplier 1.3 making the difference
C30_Witness ==
    /\ probe.op = "simulateSegmentProcessing"
    /\ probe.done
    /\ probe.variant = "filter"
    /\ probe.filter = Str("blur")
    /\ probe.finalTime > 500 * TimeScale
    /\ probe.finalTime - probe.variance * TimeScale
          > 800 * 10 * (probe.segment.endTime - probe.segment.startTime)

====
